---- MODULE Spec2Model ----
(***************************************************************************)
(* book-track: the reading-schedule engine.                                *)
(*                                                                         *)
(*   - the allocator distributePagesAcrossDays (lib/readingCalculator.ts,  *)
(*     convex/dateUtils.ts);                                               *)
(*   - the readingSessions mutations createSession and updateSession;      *)
(*   - the DaysView component: its handlers handleDayToggle,               *)
(*     handleMissedToggle, handlePagesUpdate, the redistributions they     *)
(*     start, and the react-query cache with its optimistic updates.       *)
(*   - the CatchUpSuggestion component and calculateCatchUpPages;          *)
(*   - the CalendarView component: its handlers and its progress figure;   *)
(*   - the books mutations createBook and updateBook, and BookForm's       *)
(*     handleSubmit.                                                       *)
(*                                                                         *)
(* Calendar days of a plan are numbered 1 .. totalDays in ascending date   *)
(* order; a session's date field holds that number.                        *)
(***************************************************************************)
EXTENDS Integers, Sequences, FiniteSets, TLC

VARIABLES
    alloc,        \* allocator run: its arguments and the Map it returned
    totalPages,   \* book.totalPages of the plan shown by DaysView
    db,           \* readingSessions table, in insertion order (_id = position)
    cache,        \* react-query data of getSessionsForBook, with optimistic rows;
                  \* a handler closes over the render of the cache it runs in
    inflight,     \* mutations sent and not yet executed by the server, in order
    tasks,        \* setTimeout callbacks and await continuations not yet run
    stale,        \* the sessions query was invalidated and is being refetched
    catchUp,      \* CatchUpSuggestion: the plan's length, today, and the suggestion
    last,         \* the last direct call of a mutation and its outcome
    trail,        \* the user operations so far, each with the render it acted on
    applied,      \* operations with a write that changed the table
    rejected,     \* operations with a write the server rejected
    books         \* books table, in insertion order (_id = position)

vars == <<alloc, totalPages, db, cache, inflight, tasks, stale, catchUp, last,
          trail, applied, rejected, books>>

uiVars == <<totalPages, db, cache, inflight, tasks, stale, catchUp, last,
            trail, applied, rejected, books>>

----------------------------------------------------------------------------
(* Bounds *)

MaxPages == 12      \* allocator: totalPages ranges over 1 .. MaxPages
MaxDate == 5        \* allocator: dates range over 1 .. MaxDate
NumDays == 3        \* DaysView: totalDays of the plan
MaxOps == 3         \* DaysView: user operations per behaviour
ViewOps == 4        \* both views: user operations per behaviour of SpecViews
SeqOps == 4         \* DaysView: user operations per behaviour of SpecSeq
MaxRows == 2        \* direct API calls: rows inserted per behaviour
RaceOps == 2        \* DaysView: user operations per behaviour of SpecRace

BookPages == {6, 7}         \* book.totalPages of the plans explored
PageInputs == {0, 2, 9}     \* page counts typed into the actual-pages input
BadInput == -2              \* a negative number typed into the input
RacingInputs == {2}         \* page counts typed while other writes are pending
RaceDays == {1, 2}          \* the days the user acts on in SpecRace

NoPages == -1       \* actualPages absent (v.optional(v.number()) left undefined)
TempId == 0         \* _id of an optimistic row (`temp-${Date.now()}`)

Days == 1 .. NumDays

----------------------------------------------------------------------------
(* Small helpers *)

\* Mutant: the second argument is returned unclamped.
NoClamp(a, b) == b

Max(a, b) == IF a >= b THEN a ELSE b

\* Math.ceil(a / b) for a >= 0, b > 0
CeilDiv(a, b) == (a + b - 1) \div b

RECURSIVE SumOver(_, _)
SumOver(S, f) ==
    IF S = {} THEN 0
    ELSE LET x == CHOOSE y \in S : TRUE IN f[x] + SumOver(S \ {x}, f)

Has(args, field) == field \in DOMAIN args

\* JS truthiness of an optional number: undefined and 0 are falsy
Truthy(x) == x # NoPages /\ x # 0

\* a || b || c on optional numbers
OrElse(a, b, c) == IF Truthy(a) THEN a ELSE IF Truthy(b) THEN b ELSE c

----------------------------------------------------------------------------
(* Calendar arithmetic and the allocator *)

\* eachDayOfInterval({start, end}) for start <= end: the days in ascending order
getAllDaysInRange(start, end) == [i \in 1 .. (end - start + 1) |-> start + i - 1]

\* Mutant: the remainder pages are dropped.
distributeNoRemainder(total, startDate, endDate) ==
    LET days == getAllDaysInRange(startDate, endDate)
        pagesPerDay == total \div Len(days)
    IN  [d \in {days[i] : i \in DOMAIN days} |-> pagesPerDay]

\* Mutant: the remainder pages go to the last days instead of the first.
distributeBackLoaded(total, startDate, endDate) ==
    LET days == getAllDaysInRange(startDate, endDate)
        totalDays == Len(days)
        pagesPerDay == total \div totalDays
        remainder == total % totalDays
    IN  [d \in {days[i] : i \in DOMAIN days} |->
            LET index == (CHOOSE i \in DOMAIN days : days[i] = d) - 1
            IN  pagesPerDay + (IF index >= totalDays - remainder THEN 1 ELSE 0)]

\* distributePagesAcrossDays: the Map dateKey -> pages
distributePagesAcrossDays(total, startDate, endDate) ==
    LET days == getAllDaysInRange(startDate, endDate)
        totalDays == Len(days)
        pagesPerDay == total \div totalDays
        remainder == total % totalDays
    IN  [d \in {days[i] : i \in DOMAIN days} |->
            LET index == (CHOOSE i \in DOMAIN days : days[i] = d) - 1
            IN  pagesPerDay + (IF index < remainder THEN 1 ELSE 0)]

\* calculateDailyPages
calculateDailyPages(total, days) == CeilDiv(total, days)

----------------------------------------------------------------------------
(* Allocator runs: the arguments are drawn from the bounded sets, then the *)
(* allocator is applied to them.                                           *)

NoCatchUp == [totalDays |-> 0, today |-> 0, done |-> FALSE,
              suggestion |-> [type |-> "none"]]

NoAlloc == [totalPages |-> 0, startDate |-> 0, endDate |-> 0, done |-> FALSE,
            distribution |-> <<>>]

InitAlloc ==
    /\ \E t \in 1 .. MaxPages, s \in 1 .. MaxDate, e \in 1 .. MaxDate :
         /\ s <= e
         /\ alloc = [totalPages |-> t, startDate |-> s, endDate |-> e,
                     done |-> FALSE, distribution |-> <<>>]
    /\ totalPages = 0
    /\ db = <<>> /\ cache = <<>>
    /\ inflight = <<>> /\ tasks = <<>>
    /\ stale = FALSE
    /\ catchUp = NoCatchUp
    /\ last = [op |-> "none"]
    /\ trail = <<>>
    /\ applied = {} /\ rejected = {}
    /\ books = <<>>

Allocate ==
    /\ ~alloc.done
    /\ alloc' = [alloc EXCEPT
                   !.done = TRUE,
                   !.distribution = distributePagesAcrossDays(
                       alloc.totalPages, alloc.startDate, alloc.endDate)]
    /\ UNCHANGED uiVars

NextAlloc == Allocate

SpecAlloc == InitAlloc /\ [][NextAlloc]_vars

----------------------------------------------------------------------------
(* The readingSessions mutations (server side) *)

Owner == "alice"                    \* book.userId: the owner of the plan
UserIds == {"", "alice", "bob"}     \* userId arguments ("" is not signed in)

\* createSession: the row inserted, or a throw
createSession(table, args) ==
    IF args.userId = "" \/ Owner # args.userId
    THEN [ok |-> FALSE, db |-> table]
    ELSE
      LET argMissed == Has(args, "isMissed") /\ args.isMissed
          isRead == IF argMissed THEN FALSE ELSE args.isRead
          isMissed == IF args.isRead THEN FALSE ELSE argMissed
          row == [id |-> Len(table) + 1,
                  userId |-> args.userId,
                  date |-> args.date,
                  plannedPages |-> args.plannedPages,
                  actualPages |-> IF Has(args, "actualPages")
                                  THEN args.actualPages ELSE NoPages,
                  isRead |-> isRead,
                  isMissed |-> isMissed]
      IN  [ok |-> TRUE, db |-> Append(table, row)]

\* Mutant: marking a session missed no longer clears isRead.
updateDataKeepRead(args) ==
    [setActual |-> Has(args, "actualPages"),
     setPlanned |-> Has(args, "plannedPages"),
     setRead |-> Has(args, "isRead"),
     isRead |-> Has(args, "isRead") /\ args.isRead,
     setMissed |-> Has(args, "isMissed") \/ (Has(args, "isRead") /\ args.isRead),
     isMissed |-> Has(args, "isMissed") /\ args.isMissed]

\* updateSession: the updateData object built from the arguments. set<F> says
\* whether the field is patched, and the other fields give the patched value.
updateData(args) ==
    LET readGiven == Has(args, "isRead")
        missedGiven == Has(args, "isMissed")
        markMissed == missedGiven /\ args.isMissed
    IN  [setActual |-> Has(args, "actualPages"),
         setPlanned |-> Has(args, "plannedPages"),
         setRead |-> readGiven \/ markMissed,
         isRead |-> IF markMissed THEN FALSE ELSE (readGiven /\ args.isRead),
         setMissed |-> missedGiven \/ (readGiven /\ args.isRead),
         isMissed |-> IF missedGiven THEN args.isMissed ELSE FALSE]

\* updateSession: ctx.db.patch of the session, or a throw
updateSession(table, args) ==
    IF \/ args.userId = ""
       \/ args.sessionId \notin DOMAIN table
    THEN [ok |-> FALSE, db |-> table]
    ELSE
      LET session == table[args.sessionId]
          u == updateData(args)
          patched == [session EXCEPT
              !.actualPages = IF u.setActual THEN args.actualPages ELSE @,
              !.plannedPages = IF u.setPlanned THEN args.plannedPages ELSE @,
              !.isRead = IF u.setRead THEN u.isRead ELSE @,
              !.isMissed = IF u.setMissed THEN u.isMissed ELSE @]
      IN  IF session.userId # args.userId
          THEN [ok |-> FALSE, db |-> table]
          ELSE [ok |-> TRUE, db |-> [table EXCEPT ![args.sessionId] = patched]]

----------------------------------------------------------------------------
(* Direct calls of the two mutations, with any combination of arguments *)

\* an argument object: a field left out is undefined
NoArgs == [f \in {} |-> 0]
OptBool(field, choice) ==
    IF choice = "undefined" THEN NoArgs ELSE field :> (choice = "true")
OptNum(field, value) == IF value = NoPages THEN NoArgs ELSE field :> value
OptBools == {"undefined", "true", "false"}

Flags(args) == [f \in DOMAIN args \cap {"isRead", "isMissed"} |-> args[f]]

InitApi ==
    /\ alloc = NoAlloc
    /\ totalPages = 0
    /\ db = <<>> /\ cache = <<>>
    /\ inflight = <<>> /\ tasks = <<>>
    /\ stale = FALSE
    /\ catchUp = NoCatchUp
    /\ last = [op |-> "none"]
    /\ trail = <<>>
    /\ applied = {} /\ rejected = {}
    /\ books = <<>>

ApiCreateSession ==
    /\ Len(db) < MaxRows
    /\ \E u \in UserIds, r \in BOOLEAN, m \in OptBools :
         LET args == [userId |-> u, date |-> 1, plannedPages |-> 2, isRead |-> r]
                     @@ OptBool("isMissed", m)
             res == createSession(db, args)
         IN  /\ db' = res.db
             /\ last' = [op |-> "createSession", flags |-> Flags(args),
                         id |-> Len(db) + 1, ok |-> res.ok]
    /\ UNCHANGED <<books, alloc, catchUp, totalPages, cache, inflight, tasks, stale,
                   trail, applied, rejected>>

ApiUpdateSession ==
    /\ \E u \in UserIds, id \in 1 .. MaxRows, r \in OptBools, m \in OptBools,
          a \in {NoPages, 3} :
         LET args == [userId |-> u, sessionId |-> id]
                     @@ OptBool("isRead", r) @@ OptBool("isMissed", m)
                     @@ OptNum("actualPages", a)
             res == updateSession(db, args)
         IN  /\ db' = res.db
             /\ last' = [op |-> "updateSession", flags |-> Flags(args),
                         id |-> id, ok |-> res.ok]
    /\ UNCHANGED <<books, alloc, catchUp, totalPages, cache, inflight, tasks, stale,
                   trail, applied, rejected>>

NextApi == ApiCreateSession \/ ApiUpdateSession

SpecApi == InitApi /\ [][NextApi]_vars

----------------------------------------------------------------------------
(* DaysView: what a render derives from the sessions it was given *)

\* pagesPerDay = calculateDailyPages(book.totalPages, totalDays)
pagesPerDay == calculateDailyPages(totalPages, NumDays)

\* sessionsMap.has(dateKey)
HasSession(sessions, d) == \E i \in DOMAIN sessions : sessions[i].date = d

\* sessionsMap.get(dateKey): map.set in list order, so the last row of a date wins
SessionFor(sessions, d) ==
    LET idx == {i \in DOMAIN sessions : sessions[i].date = d}
    IN  sessions[CHOOSE i \in idx : \A j \in idx : j <= i]

\* the status a day is rendered with
StatusOf(sessions, d) ==
    IF ~HasSession(sessions, d) THEN "Unset"
    ELSE IF SessionFor(sessions, d).isRead THEN "Read"
    ELSE IF SessionFor(sessions, d).isMissed THEN "Missed"
    ELSE "Unset"

\* "Plan: {session?.plannedPages ?? pagesPerDay} pages"
PlannedOf(sessions, d) ==
    IF HasSession(sessions, d) THEN SessionFor(sessions, d).plannedPages
    ELSE pagesPerDay

\* the days of the plan in ascending date order, filtered
RECURSIVE DaysWhere(_, _)
DaysWhere(keep, d) ==
    IF d > NumDays THEN <<>>
    ELSE (IF keep[d] THEN <<d>> ELSE <<>>) \o DaysWhere(keep, d + 1)

\* Math.floor(remainingPages / n) + (index < remainingPages % n ? 1 : 0)
SplitShare(remainingPages, n, index) ==
    (remainingPages \div n) + (IF index < remainingPages % n THEN 1 ELSE 0)

----------------------------------------------------------------------------
(* DaysView: the mutation calls of the redistributions *)

NoTask == [fn |-> "none"]

UpdateCall(args) == [fn |-> "updateSession", args |-> args, then |-> NoTask]
CreateCall(args) == [fn |-> "createSession", args |-> args, then |-> NoTask]

\* Mutant: the new target is added to the stored one instead of replacing it.
PlannedUpdateAdds(session, newPlannedPages) ==
    UpdateCall([sessionId |-> session.id, userId |-> Owner,
                isRead |-> FALSE, isMissed |-> FALSE,
                plannedPages |-> session.plannedPages + newPlannedPages])

\* the updateSession call both redistributions make for an open day with a row
PlannedUpdate(session, newPlannedPages) ==
    UpdateCall([sessionId |-> session.id, userId |-> Owner, isRead |-> FALSE,
                isMissed |-> FALSE, plannedPages |-> newPlannedPages])

\* redistributePages(updatedDateKey, newActualPages, excludeDateKeys)
redistributePages(sessions, updatedDateKey, newActualPages, excludeDateKeys) ==
    LET readPages == [d \in Days |->
            IF d \in excludeDateKeys
            THEN (IF d = updatedDateKey THEN newActualPages ELSE 0)
            ELSE IF HasSession(sessions, d)
                    /\ SessionFor(sessions, d).isRead
                    /\ ~SessionFor(sessions, d).isMissed
                 THEN (IF d = updatedDateKey THEN newActualPages
                       ELSE OrElse(SessionFor(sessions, d).actualPages,
                                   SessionFor(sessions, d).plannedPages, 0))
                 ELSE 0]
        totalPagesRead == SumOver(Days, readPages)
        remainingPages == Max(0, totalPages - totalPagesRead)
        unreadDays == DaysWhere(
            [d \in Days |->
                /\ d \notin excludeDateKeys
                /\ ~(HasSession(sessions, d) /\ SessionFor(sessions, d).isRead)
                /\ ~(HasSession(sessions, d) /\ SessionFor(sessions, d).isMissed)], 1)
    IN  [k \in 1 .. Len(unreadDays) |->
            LET d == unreadDays[k]
                newPlannedPages == SplitShare(remainingPages, Len(unreadDays), k - 1)
            IN  IF HasSession(sessions, d)
                THEN PlannedUpdate(SessionFor(sessions, d), newPlannedPages)
                ELSE CreateCall([bookId |-> "book", userId |-> Owner, date |-> d,
                                 plannedPages |-> newPlannedPages,
                                 isRead |-> FALSE, isMissed |-> FALSE])]

\* redistributePagesAfterUnread(dateKey); handleMissedToggle inlines the same code
redistributePagesAfterUnread(sessions, dateKey) ==
    LET readPages == [d \in Days |->
            IF /\ HasSession(sessions, d)
               /\ SessionFor(sessions, d).isRead
               /\ ~SessionFor(sessions, d).isMissed
               /\ d # dateKey
            THEN OrElse(SessionFor(sessions, d).actualPages,
                        SessionFor(sessions, d).plannedPages, 0)
            ELSE 0]
        totalPagesRead == SumOver(Days, readPages)
        remainingPages == Max(0, totalPages - totalPagesRead)
        unreadDays == DaysWhere(
            [d \in Days |->
                \/ /\ ~(HasSession(sessions, d) /\ SessionFor(sessions, d).isRead)
                   /\ ~(HasSession(sessions, d) /\ SessionFor(sessions, d).isMissed)
                \/ d = dateKey], 1)
        \* only the days that have a row get an updateSession
        withRow == SelectSeq([k \in 1 .. Len(unreadDays) |-> k],
                             LAMBDA k : HasSession(sessions, unreadDays[k]))
    IN  [j \in 1 .. Len(withRow) |->
            PlannedUpdate(SessionFor(sessions, unreadDays[withRow[j]]),
                          SplitShare(remainingPages, Len(unreadDays), withRow[j] - 1))]

----------------------------------------------------------------------------
(* DaysView: the handlers. Each returns the operation it performs, the     *)
(* mutation calls it makes in order, and the setTimeout callbacks it       *)
(* schedules. sessions is the sessionsMap of the render the handler        *)
(* belongs to; callbacks and continuations keep that same map. React       *)
(* renders a changed cache before the next event is handled, so a handler  *)
(* belongs to the render of the cache as it is when the handler starts.    *)

Task(fn, d, pages, exclude, sessions, txn) ==
    [fn |-> fn, date |-> d, pages |-> pages, exclude |-> exclude,
     snap |-> sessions, txn |-> txn]

\* updateSession({sessionId, userId, isRead, isMissed, actualPages: existing.actualPages})
StatusUpdate(session, isRead, isMissed) ==
    UpdateCall([sessionId |-> session.id, userId |-> Owner,
                isRead |-> isRead, isMissed |-> isMissed]
               @@ OptNum("actualPages", session.actualPages))

handleDayToggle(sessions, d, txn) ==
    IF HasSession(sessions, d)
    THEN LET existingSession == SessionFor(sessions, d) IN
         IF existingSession.isRead
         THEN [op |-> "unmarkRead",
               calls |-> <<StatusUpdate(existingSession, FALSE, FALSE)>>,
               timers |-> <<Task("redistributePagesAfterUnread", d, 0, {},
                                 sessions, txn)>>]
         ELSE [op |-> "markRead",
               calls |-> <<StatusUpdate(existingSession, TRUE, FALSE)>>,
               timers |-> <<Task("redistributePages", d,
                                 OrElse(existingSession.actualPages,
                                        existingSession.plannedPages, pagesPerDay),
                                 {d}, sessions, txn)>>]
    ELSE [op |-> "markRead",
          calls |-> <<CreateCall([bookId |-> "book", userId |-> Owner, date |-> d,
                                  plannedPages |-> pagesPerDay,
                                  isRead |-> TRUE, isMissed |-> FALSE])>>,
          timers |-> <<Task("redistributePages", d, pagesPerDay, {d},
                            sessions, txn)>>]

handleMissedToggle(sessions, d, txn) ==
    IF HasSession(sessions, d)
    THEN LET existingSession == SessionFor(sessions, d) IN
         IF existingSession.isMissed
         THEN [op |-> "unmarkMissed",
               calls |-> <<StatusUpdate(existingSession, FALSE, FALSE)>>
                         \o redistributePagesAfterUnread(sessions, d),
               timers |-> <<>>]
         ELSE [op |-> "markMissed",
               calls |-> <<StatusUpdate(existingSession, FALSE, TRUE)>>,
               timers |-> <<>>]
    ELSE [op |-> "markMissed",
          calls |-> <<CreateCall([bookId |-> "book", userId |-> Owner, date |-> d,
                                  plannedPages |-> pagesPerDay,
                                  isRead |-> FALSE, isMissed |-> TRUE])>>,
          timers |-> <<>>]

\* Mutant: the pages of any day that has a session can be edited.
handlePagesUpdateAnyStatus(sessions, d, pages, txn) ==
    IF HasSession(sessions, d)
    THEN LET existingSession == SessionFor(sessions, d) IN
         [op |-> "editPages",
          calls |-> <<[fn |-> "updateSession",
                       args |-> [sessionId |-> existingSession.id, userId |-> Owner,
                                 isRead |-> existingSession.isRead,
                                 actualPages |-> pages],
                       then |-> Task("redistributePages", d, pages, {},
                                     sessions, txn)]>>,
          timers |-> <<>>]
    ELSE [op |-> "editIgnored", calls |-> <<>>, timers |-> <<>>]

\* handlePagesUpdate: the redistribution runs after the awaited updateSession
handlePagesUpdate(sessions, d, pages, txn) ==
    IF HasSession(sessions, d) /\ SessionFor(sessions, d).isRead
    THEN LET existingSession == SessionFor(sessions, d) IN
         [op |-> "editPages",
          calls |-> <<[fn |-> "updateSession",
                       args |-> [sessionId |-> existingSession.id, userId |-> Owner,
                                 isRead |-> existingSession.isRead,
                                 actualPages |-> pages],
                       then |-> Task("redistributePages", d, pages, {},
                                     sessions, txn)]>>,
          timers |-> <<>>]
    ELSE [op |-> "editIgnored", calls |-> <<>>, timers |-> <<>>]

\* Mutant: the typed number goes to handlePagesUpdate without the sign check.
handleInputBlurUnchecked(sessions, d, pages, txn) ==
    handlePagesUpdate(sessions, d, pages, txn)

\* handleInputBlur with a number typed into the input
handleInputBlur(sessions, d, pages, txn) ==
    IF pages < 0
    THEN [op |-> "editRejected", calls |-> <<>>, timers |-> <<>>]
    ELSE handlePagesUpdate(sessions, d, pages, txn)

\* the calls a callback or continuation makes when it runs
TaskCalls(t) ==
    IF t.fn = "redistributePages"
    THEN redistributePages(t.snap, t.date, t.pages, t.exclude)
    ELSE redistributePagesAfterUnread(t.snap, t.date)

----------------------------------------------------------------------------
(* react-query: optimistic updates of the cached sessions (onMutate) *)

\* updateSession's onMutate: variables.x ?? session.x on the row with that _id
onMutateUpdate(old, variables) ==
    [i \in DOMAIN old |->
        IF old[i].id = variables.sessionId
        THEN [old[i] EXCEPT
                !.isRead = IF Has(variables, "isRead") THEN variables.isRead ELSE @,
                !.isMissed = IF Has(variables, "isMissed") THEN variables.isMissed ELSE @,
                !.actualPages = IF Has(variables, "actualPages")
                                THEN variables.actualPages ELSE @,
                !.plannedPages = IF Has(variables, "plannedPages")
                                 THEN variables.plannedPages ELSE @]
        ELSE old[i]]

\* createSession's onMutate: a row with a temporary _id, merged into the first
\* row of that date if there is one
onMutateCreate(old, variables) ==
    LET optimisticSession ==
            [id |-> TempId,
             userId |-> variables.userId,
             date |-> variables.date,
             plannedPages |-> variables.plannedPages,
             actualPages |-> IF Has(variables, "actualPages")
                             THEN variables.actualPages ELSE NoPages,
             isRead |-> variables.isRead,
             isMissed |-> Has(variables, "isMissed") /\ variables.isMissed]
        found == {i \in DOMAIN old : old[i].date = variables.date}
    IN  IF found # {}
        THEN LET existingIndex == CHOOSE i \in found : \A j \in found : i <= j
             IN  [old EXCEPT ![existingIndex] =
                      [optimisticSession EXCEPT !.id = old[existingIndex].id]]
        ELSE Append(old, optimisticSession)

onMutate(old, call) ==
    IF call.fn = "updateSession" THEN onMutateUpdate(old, call.args)
    ELSE onMutateCreate(old, call.args)

\* mutateAsync for each call in turn: snapshot, optimistic update, send
RECURSIVE IssueAll(_, _, _, _)
IssueAll(calls, old, queue, txn) ==
    IF calls = <<>> THEN [cache |-> old, inflight |-> queue]
    ELSE IssueAll(Tail(calls),
                  onMutate(old, Head(calls)),
                  Append(queue, [call |-> Head(calls),
                                 previousSessions |-> old,
                                 txn |-> txn]),
                  txn)

\* the mutation as the server executes it
Execute(table, call) ==
    IF call.fn = "updateSession" THEN updateSession(table, call.args)
    ELSE createSession(table, call.args)

----------------------------------------------------------------------------
(* Actions *)

\* every write has been executed and the refetched sessions are on screen
Quiescent ==
    /\ inflight = <<>>
    /\ tasks = <<>>
    /\ ~stale

InitUi ==
    /\ alloc = NoAlloc
    /\ totalPages \in BookPages
    /\ db = <<>> /\ cache = <<>>
    /\ inflight = <<>> /\ tasks = <<>>
    /\ stale = FALSE
    /\ catchUp = NoCatchUp
    /\ last = [op |-> "none"]
    /\ trail = <<>>
    /\ applied = {} /\ rejected = {}
    /\ books = <<>>

\* a handler of the current render runs: its calls are sent, its callbacks queued
UserOp(h, d, pages) ==
    /\ LET issued == IssueAll(h.calls, cache, inflight, Len(trail) + 1)
       IN  /\ cache' = issued.cache
           /\ inflight' = issued.inflight
    /\ tasks' = tasks \o h.timers
    \* onMutate cancels the refetch that is under way
    /\ stale' = IF h.calls = <<>> THEN stale ELSE FALSE
    /\ trail' = Append(trail, [op |-> h.op, date |-> d, pages |-> pages,
                               before |-> cache])
    /\ UNCHANGED <<books, alloc, catchUp, totalPages, db, last, applied, rejected>>

\* the read checkbox is rendered unless the day is shown as missed
DayToggle(d) ==
    /\ ~(HasSession(cache, d) /\ SessionFor(cache, d).isMissed)
    /\ UserOp(handleDayToggle(cache, d, Len(trail) + 1), d, NoPages)

\* the missed checkbox is rendered unless the day is shown as read
MissedToggle(d) ==
    /\ ~(HasSession(cache, d) /\ SessionFor(cache, d).isRead)
    /\ UserOp(handleMissedToggle(cache, d, Len(trail) + 1), d, NoPages)

\* the actual-pages input is rendered for a day shown as read
InputBlur(d, pages) ==
    /\ HasSession(cache, d) /\ SessionFor(cache, d).isRead
    /\ UserOp(handleInputBlur(cache, d, pages, Len(trail) + 1), d, pages)

\* a setTimeout callback or an await continuation runs
RunTask ==
    /\ tasks # <<>>
    /\ LET t == Head(tasks)
           calls == TaskCalls(t)
           issued == IssueAll(calls, cache, inflight, t.txn)
       IN  /\ cache' = issued.cache
           /\ inflight' = issued.inflight
           /\ stale' = IF calls = <<>> THEN stale ELSE FALSE
    /\ tasks' = Tail(tasks)
    /\ UNCHANGED <<books, alloc, catchUp, totalPages, db, last, trail, applied, rejected>>

\* Mutant: a failed write leaves the optimistic cache as it is.
onErrorKeeps(current, context) == current

\* onError: setQueryData(sessionsQueryKey, context.previousSessions)
onError(current, context) == context.previousSessions

\* the server executes the oldest mutation; the client gets the outcome:
\* onError restores the snapshot, an awaited call resumes its handler, and
\* onSettled invalidates the sessions query
Deliver ==
    /\ inflight # <<>>
    /\ LET m == Head(inflight)
           res == Execute(db, m.call)
       IN  /\ db' = res.db
           /\ cache' = IF res.ok THEN cache ELSE onError(cache, m)
           /\ tasks' = IF res.ok /\ m.call.then.fn # "none"
                       THEN Append(tasks, m.call.then) ELSE tasks
           /\ applied' = IF res.ok /\ res.db # db THEN applied \cup {m.txn} ELSE applied
           /\ rejected' = IF res.ok THEN rejected ELSE rejected \cup {m.txn}
           /\ last' = [op |-> "settled", ok |-> res.ok]
    /\ inflight' = Tail(inflight)
    /\ stale' = TRUE
    /\ UNCHANGED <<books, alloc, catchUp, totalPages, trail>>

\* the refetch of getSessionsForBook arrives
Refetch ==
    /\ stale
    /\ cache' = db
    /\ stale' = FALSE
    /\ UNCHANGED <<books, alloc, catchUp, totalPages, db, inflight, tasks, last, trail,
                   applied, rejected>>

System == RunTask \/ Deliver \/ Refetch

\* the user acts at any moment, also while writes and callbacks are pending
Next ==
    \/ Len(trail) < MaxOps /\ \E d \in Days : DayToggle(d)
    \/ Len(trail) < MaxOps /\ \E d \in Days : MissedToggle(d)
    \/ Len(trail) < MaxOps
          /\ \E d \in Days, pages \in RacingInputs : InputBlur(d, pages)
    \/ System

Spec == InitUi /\ [][Next]_vars

\* the user acts only when every write of the previous operation has been
\* executed and the result is on screen
NextSeq ==
    \/ Quiescent /\ Len(trail) < SeqOps /\ \E d \in Days : DayToggle(d)
    \/ Quiescent /\ Len(trail) < SeqOps /\ \E d \in Days : MissedToggle(d)
    \/ Quiescent /\ Len(trail) < SeqOps
          /\ \E d \in Days, pages \in PageInputs \cup {BadInput} : InputBlur(d, pages)
    \/ System

SpecSeq == InitUi /\ [][NextSeq]_vars

\* two operations overlapping on the first days of the plan
NextRace ==
    \/ Len(trail) < RaceOps /\ \E d \in RaceDays : DayToggle(d)
    \/ Len(trail) < RaceOps /\ \E d \in RaceDays : MissedToggle(d)
    \/ Len(trail) < RaceOps
          /\ \E d \in RaceDays, pages \in RacingInputs : InputBlur(d, pages)
    \/ System

SpecRace == InitUi /\ [][NextRace]_vars

----------------------------------------------------------------------------
(* What the day records say *)

DaysWith(sessions, status) == {d \in Days : StatusOf(sessions, d) = status}

\* effectivePages(day) = actualPages ?? plannedPages
EffectivePages(sessions, d) ==
    IF SessionFor(sessions, d).actualPages # NoPages
    THEN SessionFor(sessions, d).actualPages
    ELSE SessionFor(sessions, d).plannedPages

PlannedSum(sessions, S) == SumOver(S, [d \in Days |-> PlannedOf(sessions, d)])
ReadSum(sessions) ==
    SumOver(DaysWith(sessions, "Read"),
            [d \in Days |-> IF StatusOf(sessions, d) = "Read"
                            THEN EffectivePages(sessions, d) ELSE 0])

LastOp == trail[Len(trail)]
AtRest == Quiescent /\ trail # <<>>

----------------------------------------------------------------------------
(* Allocator claims (SpecAlloc) *)

AllocDays == alloc.startDate .. alloc.endDate
AllocCount == alloc.endDate - alloc.startDate + 1

\* C9: the plannedPages the allocator assigns to the days of a non-empty range
\* sum exactly to totalPages, for every totalPages > 0.
AllocatorConservation ==
    alloc.done =>
        /\ DOMAIN alloc.distribution = AllocDays
        /\ SumOver(AllocDays, alloc.distribution) = alloc.totalPages

\* C9 witness: 12 pages over 4 days have been allocated, 3 to each day.
AllocatorConservationWitness ==
    /\ alloc.done
    /\ alloc.totalPages = 12 /\ AllocCount = 4
    /\ \A d \in AllocDays : alloc.distribution[d] = 3

\* C10: the i-th day in ascending date order (0-based) gets base + 1 if
\* i < remainder and base otherwise, with base = floor(totalPages / n) and
\* remainder = totalPages mod n; so the targets never increase with the date
\* and differ by at most 1.
AllocatorTieBreak ==
    alloc.done =>
        LET n == AllocCount
            base == alloc.totalPages \div n
            remainder == alloc.totalPages % n
        IN  /\ \A d \in AllocDays :
                  alloc.distribution[d] =
                      IF d - alloc.startDate < remainder THEN base + 1 ELSE base
            /\ \A d, e \in AllocDays :
                  d <= e => /\ alloc.distribution[d] >= alloc.distribution[e]
                            /\ alloc.distribution[d] - alloc.distribution[e] <= 1

\* C10 witness: 10 pages over the 4 days 2 .. 5 gave two days of 3 followed by
\* two days of 2.
AllocatorTieBreakWitness ==
    /\ alloc.done
    /\ alloc.totalPages = 10 /\ alloc.startDate = 2 /\ alloc.endDate = 5
    /\ alloc.distribution[2] = 3 /\ alloc.distribution[3] = 3
    /\ alloc.distribution[4] = 2 /\ alloc.distribution[5] = 2

----------------------------------------------------------------------------
(* Mutation claims (SpecApi) *)

\* C2: after any sequence of createSession and updateSession calls, with any
\* combination of the isRead and isMissed arguments, no stored session has
\* isRead and isMissed both true.
Exclusivity == \A i \in DOMAIN db : ~(db[i].isRead /\ db[i].isMissed)

\* C2 witness: updateSession was called with isRead = true and isMissed = true
\* on a stored session and was executed.
ExclusivityWitness ==
    /\ last.op = "updateSession" /\ last.ok
    /\ last.flags = [isRead |-> TRUE, isMissed |-> TRUE]
    /\ db[last.id].isMissed

----------------------------------------------------------------------------
(* One operation carried out alone: its writes, then the writes of its     *)
(* callback or continuation, executed in the order they are sent           *)

RECURSIVE RunCalls(_, _)
RunCalls(table, calls) ==
    IF calls = <<>> THEN table
    ELSE RunCalls(Execute(table, Head(calls)).db, Tail(calls))

Settle(table, h) ==
    LET timerCalls == IF h.timers = <<>> THEN <<>> ELSE TaskCalls(h.timers[1])
        thenCalls == IF h.calls # <<>> /\ h.calls[1].then # NoTask
                     THEN TaskCalls(h.calls[1].then) ELSE <<>>
    IN  RunCalls(RunCalls(table, h.calls), timerCalls \o thenCalls)

\* The days brought one by one, in date order, to the status (and the
\* actualPages) that status and actual give them, from day d on.
RECURSIVE Replay(_, _, _, _)
Replay(table, status, actual, d) ==
    IF d > NumDays THEN table
    ELSE LET marked ==
                 IF status[d] = "Read"
                 THEN Settle(table, handleDayToggle(table, d, 0))
                 ELSE IF status[d] = "Missed"
                 THEN Settle(table, handleMissedToggle(table, d, 0))
                 ELSE table
             edited ==
                 IF status[d] = "Read" /\ actual[d] # NoPages
                 THEN Settle(marked, handlePagesUpdate(marked, d, actual[d], 0))
                 ELSE marked
         IN  Replay(edited, status, actual, d + 1)

\* the same final assignment, reached in date order from a new plan
InDateOrder ==
    Replay(<<>>,
           [d \in Days |-> StatusOf(db, d)],
           [d \in Days |-> IF StatusOf(db, d) = "Read"
                           THEN SessionFor(db, d).actualPages ELSE NoPages],
           1)

----------------------------------------------------------------------------
(* Engine claims, the user acting on a settled screen (SpecSeq) *)

\* C1: after any sequence of transitions and edits, each followed by its
\* redistribution, as long as a day is Unset or Read, the plannedPages of the
\* Unset days plus the effective pages of the Read days equal totalPages;
\* Missed days count on neither side.
Conservation ==
    (AtRest /\ DaysWith(db, "Unset") \cup DaysWith(db, "Read") # {}) =>
        PlannedSum(db, DaysWith(db, "Unset")) + ReadSum(db) = totalPages

\* C3: when an Unset day is marked Missed, its pages are not given back: the
\* targets of the Unset days still sum to totalPages minus the pages of the
\* Read days (for 100 pages over 10 days, the other nine sum to 100, not 90).
MissedNotRefunded ==
    (/\ AtRest
     /\ LastOp.op = "markMissed"
     /\ StatusOf(LastOp.before, LastOp.date) = "Unset"
     /\ DaysWith(db, "Unset") # {}) =>
        PlannedSum(db, DaysWith(db, "Unset")) = Max(0, totalPages - ReadSum(db))

\* the operations so far each marked a different day Read or Missed
MarksOnly ==
    /\ \A k \in DOMAIN trail : trail[k].op \in {"markRead", "markMissed"}
    /\ \A j, k \in DOMAIN trail : j # k => trail[j].date # trail[k].date

\* C7: two orders of the same operations, ending in the same statuses and
\* actualPages, end in the same plannedPages on every Unset day: the targets
\* reached by marking days in any order are those reached by marking the same
\* days in date order.
OrderIndependence ==
    (AtRest /\ MarksOnly) =>
        \A d \in DaysWith(db, "Unset") :
            PlannedOf(db, d) = PlannedOf(InDateOrder, d)

\* the operations from the k-th on are a marking of the day of the last
\* operation, Unset until then, and edits of its actualPages
RoundTripFrom(k) ==
    /\ trail[k].op = "markRead"
    /\ trail[k].date = LastOp.date
    /\ StatusOf(trail[k].before, LastOp.date) = "Unset"
    /\ \A j \in k + 1 .. Len(trail) - 1 :
          trail[j].op = "editPages" /\ trail[j].date = LastOp.date

\* C8: marking an Unset day Read (optionally setting its actualPages) and then
\* unmarking it, with nothing else in between, gives every open day the
\* plannedPages it had before the day was marked.
UnmarkRoundTrip ==
    (AtRest /\ LastOp.op = "unmarkRead") =>
        \A k \in 1 .. Len(trail) - 1 :
            RoundTripFrom(k) =>
                \A d \in Days :
                    StatusOf(trail[k].before, d) = "Unset" =>
                        PlannedOf(db, d) = PlannedOf(trail[k].before, d)

----------------------------------------------------------------------------
(* Engine claims, operations overlapping (Spec) *)

\* C4: a redistribution computed from a snapshot older than a newer change to
\* the plan is dropped: once everything has settled, the day the newest
\* operation marked Read or Missed has that status.
StaleRedistributionDropped ==
    (AtRest /\ rejected = {} /\ LastOp.op \in {"markRead", "markMissed"}) =>
        StatusOf(db, LastOp.date) =
            IF LastOp.op = "markRead" THEN "Read" ELSE "Missed"

\* C5: there is never more than one session for the same book and date.
OneSessionPerDay ==
    \A i, j \in DOMAIN db : i # j => db[i].date # db[j].date

----------------------------------------------------------------------------
(* Seeding and the targets a redistribution writes *)

\* the allocator's target of day d of the plan shown
AllocatorShare(d) == distributePagesAcrossDays(totalPages, 1, NumDays)[d]

\* C11: before any day-status change the planned pages of the days of a plan,
\* as shown for a day without a row and as stored when the first row of a day
\* is created, are the allocator's values and sum to totalPages.
Seeding ==
    /\ trail = <<>> =>
          /\ \A d \in Days : PlannedOf(db, d) = AllocatorShare(d)
          /\ PlannedSum(db, Days) = totalPages
    /\ (AtRest /\ Len(trail) = 1 /\ LastOp.op \in {"markRead", "markMissed"}) =>
          SessionFor(db, LastOp.date).plannedPages = AllocatorShare(LastOp.date)

\* C12: in every reachable state every day's plannedPages is >= 0, stored,
\* cached or on its way to the server; when the pages of the Read days exceed
\* totalPages the remainder is taken as 0 before it is split.
NonNegativity ==
    /\ \A i \in DOMAIN db : db[i].plannedPages >= 0
    /\ \A i \in DOMAIN cache : cache[i].plannedPages >= 0
    /\ \A i \in DOMAIN inflight :
          Has(inflight[i].call.args, "plannedPages") =>
              inflight[i].call.args.plannedPages >= 0

\* C12 witness: an edit has put the pages read above totalPages and the
\* redistribution after it has stored a target of 0 on an Unset day.
NonNegativityWitness ==
    /\ AtRest /\ LastOp.op = "editPages"
    /\ ReadSum(db) > totalPages
    /\ \E d \in DaysWith(db, "Unset") :
          HasSession(db, d) /\ SessionFor(db, d).plannedPages = 0

\* the day the operation of the oldest pending write acted on
WritingDay == trail[Head(inflight).txn].date

\* the server executes the oldest pending write in this step
Delivering == inflight # <<>> /\ Len(inflight') = Len(inflight) - 1

\* C13: once a day is Read or Missed, no write of an operation on another day
\* changes its status or its plannedPages: redistribution writes only to days
\* that are Unset.
FrozenTargets ==
    [][Delivering =>
          \A d \in Days :
              (StatusOf(db, d) \in {"Read", "Missed"} /\ d # WritingDay) =>
                  /\ StatusOf(db', d) = StatusOf(db, d)
                  /\ PlannedOf(db', d) = PlannedOf(db, d)]_vars

----------------------------------------------------------------------------
(* The redistribution of an operation, applied once more *)

\* the handler call that trail entry e records
HandlerOf(e) ==
    IF e.op \in {"markRead", "unmarkRead"}
    THEN handleDayToggle(e.before, e.date, 0)
    ELSE IF e.op \in {"markMissed", "unmarkMissed"}
    THEN handleMissedToggle(e.before, e.date, 0)
    ELSE handleInputBlur(e.before, e.date, e.pages, 0)

\* the redistribution that operation started: a setTimeout callback, the
\* continuation of handlePagesUpdate, or the code inlined in handleMissedToggle
RedistributionOf(e) ==
    LET h == HandlerOf(e) IN
    IF h.timers # <<>> THEN h.timers[1]
    ELSE IF h.calls # <<>> /\ h.calls[1].then.fn # "none" THEN h.calls[1].then
    ELSE IF e.op = "unmarkMissed"
    THEN Task("redistributePagesAfterUnread", e.date, 0, {}, e.before, 0)
    ELSE [fn |-> "none"]

Redistributes(e) == RedistributionOf(e).fn # "none"

\* the writes of that redistribution when it runs again on sessions
Again(sessions, e) == TaskCalls([RedistributionOf(e) EXCEPT !.snap = sessions])

\* C14: a redistribution applied a second time, with no status or actualPages
\* change in between, leaves every day's plannedPages as the first application
\* left it.
Idempotence ==
    (AtRest /\ Redistributes(LastOp)) =>
        \A d \in Days :
            PlannedOf(RunCalls(db, Again(db, LastOp)), d) = PlannedOf(db, d)

\* C14 witness: a day was unmarked, its redistribution has settled, and the
\* second application sends writes again.
IdempotenceWitness ==
    /\ AtRest /\ LastOp.op = "unmarkRead"
    /\ Again(db, LastOp) # <<>>

\* the row of sessions an updateSession call is addressed to
HasRow(sessions, id) == \E i \in DOMAIN sessions : sessions[i].id = id
RowOf(sessions, id) == sessions[CHOOSE i \in DOMAIN sessions : sessions[i].id = id]

\* C15: a redistribution sends a write only for a day whose plannedPages
\* changes: no pending updateSession carries the plannedPages its day already
\* had when the write was sent.
MinimalWrites ==
    \A i \in DOMAIN inflight :
        LET args == inflight[i].call.args
            old == inflight[i].previousSessions
        IN  (/\ inflight[i].call.fn = "updateSession"
             /\ Has(args, "plannedPages")
             /\ HasRow(old, args.sessionId)) =>
                args.plannedPages # RowOf(old, args.sessionId).plannedPages

----------------------------------------------------------------------------
(* The cache when a write comes back *)

----------------------------------------------------------------------------
(* CatchUpSuggestion: the suggestion computed from a plan, its sessions    *)
(* and today. The days of the plan are 1 .. totalDays; today = 0 is the    *)
(* day before the plan starts, today = totalDays + 1 the day after it ends *)

SessionDays == 3    \* the first days of a plan that may have a session

\* the plans evaluated: book.totalPages and the length of startDate .. endDate
Plans == {[totalPages |-> 6, totalDays |-> 3],
          [totalPages |-> 7, totalDays |-> 3],
          [totalPages |-> 100, totalDays |-> 10]}

\* what a day's session says; "ReadAll" is a Read day with actualPages set to
\* the whole book
DayStates == {"none", "Unset", "Read", "ReadAll", "Missed"}

RECURSIVE SessionsFrom(_, _, _, _)
SessionsFrom(pick, total, n, d) ==
    IF d \notin DOMAIN pick THEN <<>>
    ELSE LET rest == SessionsFrom(pick, total, n, d + 1)
         IN  IF pick[d] = "none" THEN rest
             ELSE <<[id |-> d, userId |-> Owner, date |-> d,
                     plannedPages |-> distributePagesAcrossDays(total, 1, n)[d],
                     actualPages |-> IF pick[d] = "ReadAll" THEN total ELSE NoPages,
                     isRead |-> pick[d] \in {"Read", "ReadAll"},
                     isMissed |-> pick[d] = "Missed"]>> \o rest

\* Mutant: the suggestion is rounded down.
calculateCatchUpPagesFloor(total, completedPages, remainingDays) ==
    LET remainingPages == total - completedPages
    IN  IF remainingDays <= 0 THEN remainingPages
        ELSE remainingPages \div remainingDays

\* calculateCatchUpPages
calculateCatchUpPages(total, completedPages, remainingDays) ==
    LET remainingPages == total - completedPages
    IN  IF remainingDays <= 0 THEN remainingPages
        ELSE CeilDiv(remainingPages, remainingDays)

\* getMissedDays: the days of the range before today that are not completed
getMissedDays(startDate, endDate, completedDates, today) ==
    SelectSeq(getAllDaysInRange(startDate, endDate),
              LAMBDA day : day < today /\ day \notin completedDates)

\* expectedPageByToday: the allocator's pages of the days up to today
expectedPageByToday(total, endDate, today) ==
    LET pageDistribution == distributePagesAcrossDays(total, 1, endDate)
    IN  SumOver({d \in 1 .. endDate : d <= today}, pageDistribution)

\* the useMemo of CatchUpSuggestion
CatchUpSuggestion(total, endDate, sessions, today) ==
    LET rows == {sessions[i] : i \in DOMAIN sessions}
        pagesOf == [i \in DOMAIN sessions |->
            IF sessions[i].isRead
            THEN OrElse(sessions[i].actualPages, sessions[i].plannedPages, 0)
            ELSE 0]
        totalPagesRead == SumOver(DOMAIN sessions, pagesOf)
        expected == expectedPageByToday(total, endDate, today)
        explicitlyMissedDays ==
            Cardinality({i \in DOMAIN sessions : sessions[i].isMissed})
        completedDates == {r.date : r \in {x \in rows : x.isRead /\ ~x.isMissed}}
        missedDays == getMissedDays(1, endDate, completedDates, today)
        pagesForCatchUp == [i \in DOMAIN sessions |->
            IF sessions[i].isRead /\ ~sessions[i].isMissed
            THEN OrElse(sessions[i].actualPages, sessions[i].plannedPages,
                        sessions[i].plannedPages)
            ELSE 0]
        totalPagesReadForCatchUp == SumOver(DOMAIN sessions, pagesForCatchUp)
        remainingPages == total - totalPagesReadForCatchUp
        remainingDays == endDate - today + 1
    IN  IF today > endDate THEN [type |-> "none"]
        ELSE IF totalPagesRead >= expected THEN [type |-> "none"]
        ELSE IF Len(missedDays) = 0 /\ explicitlyMissedDays = 0
        THEN [type |-> "none"]
        ELSE IF remainingDays <= 0
        THEN [type |-> "overdue", suggestedPages |-> remainingPages]
        ELSE [type |-> "catchup",
              missedDays |-> explicitlyMissedDays + Len(missedDays),
              remainingPages |-> remainingPages,
              remainingDays |-> remainingDays,
              suggestedPages |->
                  calculateCatchUpPages(total, totalPagesReadForCatchUp,
                                        remainingDays)]

InitCatchUp ==
    /\ \E plan \in Plans :
       \E today \in 0 .. plan.totalDays + 1 :
       \E pick \in [1 .. (IF plan.totalDays < SessionDays
                          THEN plan.totalDays ELSE SessionDays) -> DayStates] :
          /\ totalPages = plan.totalPages
          /\ db = SessionsFrom(pick, plan.totalPages, plan.totalDays, 1)
          /\ catchUp = [totalDays |-> plan.totalDays, today |-> today,
                        done |-> FALSE, suggestion |-> [type |-> "none"]]
    /\ alloc = NoAlloc
    /\ cache = <<>>
    /\ inflight = <<>> /\ tasks = <<>>
    /\ stale = FALSE
    /\ last = [op |-> "none"]
    /\ trail = <<>>
    /\ applied = {} /\ rejected = {}
    /\ books = <<>>

\* the component renders: the suggestion is computed
Evaluate ==
    /\ ~catchUp.done
    /\ catchUp' = [catchUp EXCEPT
                     !.done = TRUE,
                     !.suggestion = CatchUpSuggestion(totalPages, catchUp.totalDays,
                                                      db, catchUp.today)]
    /\ UNCHANGED <<books, alloc, totalPages, db, cache, inflight, tasks, stale, last,
                   trail, applied, rejected>>

NextCatchUp == Evaluate

SpecCatchUp == InitCatchUp /\ [][NextCatchUp]_vars

----------------------------------------------------------------------------
(* Catch-up claims (SpecCatchUp) *)

PlanDays == 1 .. catchUp.totalDays

\* the pages of the Read days of the plan evaluated
PagesRead ==
    SumOver({d \in PlanDays : StatusOf(db, d) = "Read"},
            [d \in PlanDays |-> IF HasSession(db, d)
                                THEN EffectivePages(db, d) ELSE 0])

\* the targets of the days up to and including today
ExpectedByToday ==
    SumOver({d \in PlanDays : d <= catchUp.today},
            distributePagesAcrossDays(totalPages, 1, catchUp.totalDays))

DaysLeft == Cardinality({d \in PlanDays : d >= catchUp.today})

\* C17: for today within the plan, no report is returned when the pages read
\* have reached the pages expected by today, and a catch-up report is
\* returned whenever they have not, also on the first day of the plan.
CatchUpWhenBehind ==
    (catchUp.done /\ catchUp.today \in PlanDays) =>
        /\ PagesRead >= ExpectedByToday => catchUp.suggestion.type = "none"
        /\ PagesRead < ExpectedByToday => catchUp.suggestion.type = "catchup"

\* C18: when today is after the end date and pages remain unread, the report
\* is of kind overdue and suggests the remaining pages.
OverdueReport ==
    (catchUp.done /\ catchUp.today > catchUp.totalDays
                  /\ totalPages - PagesRead > 0) =>
        /\ catchUp.suggestion.type = "overdue"
        /\ catchUp.suggestion.suggestedPages = totalPages - PagesRead

\* C19: in a catch-up report suggestedPages = ceil(remainingPages /
\* remainingDays), remainingDays counting today through the end date: it is
\* the least number of pages a day that finishes the book in the days left.
CatchUpClosesGap ==
    (catchUp.done /\ catchUp.suggestion.type = "catchup") =>
        LET r == catchUp.suggestion IN
        /\ r.remainingDays = DaysLeft
        /\ r.remainingPages = totalPages - PagesRead
        /\ r.suggestedPages * r.remainingDays >= r.remainingPages
        /\ (r.suggestedPages - 1) * r.remainingDays < r.remainingPages

\* C19 witness: 100 pages over 10 days, nothing read, today is day 4: 100
\* pages and 7 days are left and 15 pages are suggested.
CatchUpClosesGapWitness ==
    /\ catchUp.done /\ catchUp.suggestion.type = "catchup"
    /\ totalPages = 100 /\ catchUp.totalDays = 10 /\ catchUp.today = 4
    /\ db = <<>>
    /\ catchUp.suggestion.remainingPages = 100
    /\ catchUp.suggestion.remainingDays = 7
    /\ catchUp.suggestion.suggestedPages = 15

\* C20: the missed days of a catch-up report are the days of the plan before
\* today that are not Read, each counted once; no day on or after today is
\* counted.
MissedDayCount ==
    (catchUp.done /\ catchUp.suggestion.type = "catchup") =>
        catchUp.suggestion.missedDays =
            Cardinality({d \in PlanDays :
                            d < catchUp.today /\ StatusOf(db, d) # "Read"})

----------------------------------------------------------------------------
(* Books: the createBook and updateBook mutations, and the form that calls *)
(* them                                                                    *)

MaxBooks == 2               \* books inserted per behaviour
BookTotals == {-5, 0, 7}    \* totalPages passed to the mutations directly
BookDates == {1, 2}         \* startDate and endDate passed to the mutations
NoDate == 0                 \* a date that is not selected, or not passed
Today == 1                  \* new Date() at midnight

\* createBook: ctx.db.insert("books", bookData), or a throw
createBook(table, args) ==
    IF args.userId = ""
    THEN [ok |-> FALSE, db |-> table]
    ELSE [ok |-> TRUE,
          db |-> Append(table, [userId |-> args.userId,
                                name |-> args.name,
                                totalPages |-> args.totalPages,
                                startDate |-> args.startDate,
                                endDate |-> args.endDate])]

\* updateBook's updates object: the fields of args that are not undefined
updates(book, args) ==
    [f \in DOMAIN book |->
        IF f # "userId" /\ Has(args, f) THEN args[f] ELSE book[f]]

\* updateBook: ctx.db.patch(args.bookId, updates), or a throw
updateBook(table, args) ==
    IF \/ args.userId = ""
       \/ args.bookId \notin DOMAIN table
    THEN [ok |-> FALSE, db |-> table]
    ELSE IF table[args.bookId].userId # args.userId
    THEN [ok |-> FALSE, db |-> table]
    ELSE [ok |-> TRUE,
          db |-> [table EXCEPT ![args.bookId] = updates(@, args)]]

\* Number(value) for the values a number input can hold: "" or a numeric
\* string, so that isNaN(Number(value)) is false for each of them
NumberOf == ("" :> 0) @@ ("0" :> 0) @@ ("-5" :> -5) @@ ("2" :> 2) @@ ("7" :> 7)

Forms ==
    [name : {"", "Dune"}, totalPages : DOMAIN NumberOf,
     readingMode : {"calendar", "fixed-days"},
     startDate : {NoDate} \cup BookDates, endDate : {NoDate} \cup BookDates,
     daysToRead : {"", "0", "2"}]

NoCall == [fn |-> "none"]

\* handleSubmit: the mutation it calls, if it gets that far. daysToRead stays
\* far below 365, so the confirm dialog is never shown.
handleSubmit(form, userId, editing) ==
    IF form.name = "" \/ form.totalPages = "" THEN NoCall
    ELSE IF userId = "" THEN NoCall
    ELSE IF form.readingMode = "calendar"
            /\ (form.startDate = NoDate \/ form.endDate = NoDate)
    THEN NoCall
    ELSE IF form.readingMode = "calendar" /\ form.endDate < form.startDate
    THEN NoCall
    ELSE IF form.readingMode = "fixed-days" /\ form.daysToRead = ""
    THEN NoCall
    ELSE
      LET days == NumberOf[form.daysToRead]
          startDateValue == IF form.readingMode = "calendar"
                            THEN form.startDate ELSE Today
          endDateValue == IF form.readingMode = "calendar"
                          THEN form.endDate ELSE Today + days - 1
          fields == [userId |-> userId, name |-> form.name,
                     totalPages |-> NumberOf[form.totalPages],
                     startDate |-> startDateValue, endDate |-> endDateValue]
      IN  IF editing # 0
          THEN [fn |-> "updateBook", args |-> fields @@ ("bookId" :> editing)]
          ELSE [fn |-> "createBook", args |-> fields]

\* the browser sends the submit event only when the constraints of the
\* inputs hold: name, totalPages and daysToRead are required, the two number
\* inputs have min="1"
Submittable(form) ==
    /\ form.name # ""
    /\ form.totalPages # "" /\ NumberOf[form.totalPages] >= 1
    /\ form.readingMode = "fixed-days" =>
          (form.daysToRead # "" /\ NumberOf[form.daysToRead] >= 1)

InitBooks ==
    /\ alloc = NoAlloc
    /\ totalPages = 0
    /\ db = <<>> /\ cache = <<>>
    /\ inflight = <<>> /\ tasks = <<>>
    /\ stale = FALSE
    /\ catchUp = NoCatchUp
    /\ last = [op |-> "none"]
    /\ trail = <<>>
    /\ applied = {} /\ rejected = {}
    /\ books = <<>>

bookVars == <<alloc, totalPages, db, cache, inflight, tasks, stale, catchUp,
              trail, applied, rejected>>

\* the form is submitted: new book page or edit page of a stored book
FormSubmit ==
    \E form \in Forms, userId \in {"", Owner}, editing \in 0 .. MaxBooks :
        /\ Submittable(form)
        /\ editing # 0 => editing \in DOMAIN books
        /\ editing = 0 => Len(books) < MaxBooks
        /\ LET call == handleSubmit(form, userId, editing)
               res == IF call.fn = "createBook" THEN createBook(books, call.args)
                      ELSE IF call.fn = "updateBook"
                      THEN updateBook(books, call.args)
                      ELSE [ok |-> FALSE, db |-> books]
           IN  /\ books' = res.db
               /\ last' = [op |-> "submit", fn |-> call.fn, ok |-> res.ok,
                           totalPages |-> NumberOf[form.totalPages]]
        /\ UNCHANGED bookVars

ApiCreateBook ==
    /\ Len(books) < MaxBooks
    /\ \E u \in {"", Owner}, t \in BookTotals, s \in BookDates, e \in BookDates :
         LET res == createBook(books, [userId |-> u, name |-> "Dune",
                                       totalPages |-> t, startDate |-> s,
                                       endDate |-> e])
         IN  /\ books' = res.db
             /\ last' = [op |-> "createBook", fn |-> "createBook",
                         ok |-> res.ok, totalPages |-> t]
    /\ UNCHANGED bookVars

ApiUpdateBook ==
    /\ \E u \in UserIds, id \in 1 .. MaxBooks, t \in BookTotals,
          e \in {NoDate} \cup BookDates :
         LET args == [userId |-> u, bookId |-> id, totalPages |-> t]
                     @@ (IF e = NoDate THEN NoArgs ELSE "endDate" :> e)
             res == updateBook(books, args)
         IN  /\ books' = res.db
             /\ last' = [op |-> "updateBook", fn |-> "updateBook",
                         ok |-> res.ok, totalPages |-> t]
    /\ UNCHANGED bookVars

NextBooks == FormSubmit \/ ApiCreateBook \/ ApiUpdateBook

SpecBooks == InitBooks /\ [][NextBooks]_vars

\* C24: a totalPages of zero or less is turned down with an error before
\* anything is written: no stored book has totalPages <= 0, whether it was
\* created or updated.
PositiveTotalPages ==
    /\ \A i \in DOMAIN books : books[i].totalPages > 0
    /\ (last.op # "none" /\ last.totalPages <= 0) => ~last.ok

----------------------------------------------------------------------------
(* The allocator on any pair of dates *)

\* eachDayOfInterval with start after end, which the code does not exclude:
\* date-fns 2 throws RangeError("Invalid interval"), date-fns 3 and 4 return
\* the days from start down to end
IntervalOutcomes == {"throws", "descending"}

eachDayOfInterval(start, end, outcome) ==
    IF start <= end
    THEN [ok |-> TRUE, days |-> getAllDaysInRange(start, end)]
    ELSE IF outcome = "throws"
    THEN [ok |-> FALSE, days |-> <<>>]
    ELSE [ok |-> TRUE, days |-> [i \in 1 .. (start - end + 1) |-> start - i + 1]]

\* distributePagesAcrossDays on the days eachDayOfInterval returned
distributeOverInterval(total, startDate, endDate, outcome) ==
    LET interval == eachDayOfInterval(startDate, endDate, outcome)
        days == interval.days
        totalDays == Len(days)
        basePages == total \div totalDays
        remainder == total % totalDays
    IN  IF ~interval.ok THEN [ok |-> FALSE, distribution |-> <<>>]
        ELSE [ok |-> TRUE,
              distribution |->
                [d \in {days[i] : i \in DOMAIN days} |->
                    LET index == (CHOOSE i \in DOMAIN days : days[i] = d) - 1
                    IN  basePages + (IF index < remainder THEN 1 ELSE 0)]]

InitRange ==
    /\ \E t \in 1 .. MaxPages, s \in 1 .. MaxDate, e \in 1 .. MaxDate :
         alloc = [totalPages |-> t, startDate |-> s, endDate |-> e,
                  done |-> FALSE, ok |-> FALSE, distribution |-> <<>>]
    /\ totalPages = 0
    /\ db = <<>> /\ cache = <<>>
    /\ inflight = <<>> /\ tasks = <<>>
    /\ stale = FALSE
    /\ catchUp = NoCatchUp
    /\ last = [op |-> "none"]
    /\ trail = <<>>
    /\ applied = {} /\ rejected = {}
    /\ books = <<>>

AllocateRange ==
    /\ ~alloc.done
    /\ \E outcome \in IntervalOutcomes :
         LET res == distributeOverInterval(alloc.totalPages, alloc.startDate,
                                           alloc.endDate, outcome)
         IN  alloc' = [alloc EXCEPT !.done = TRUE, !.ok = res.ok,
                                    !.distribution = res.distribution]
    /\ UNCHANGED uiVars

NextRange == AllocateRange

SpecRange == InitRange /\ [][NextRange]_vars

\* C25: the allocator called with an end date before the start date fails
\* with an error and returns no targets at all.
EmptyRangeIsError ==
    (alloc.done /\ alloc.endDate < alloc.startDate) =>
        /\ ~alloc.ok
        /\ alloc.distribution = <<>>

----------------------------------------------------------------------------
(* The progress figures of the two views *)

\* DaysView: sum + (session.actualPages || session.plannedPages || 0) over
\* the rows with isRead && !isMissed
RECURSIVE totalPagesRead(_)
totalPagesRead(sessions) ==
    IF sessions = <<>> THEN 0
    ELSE LET session == Head(sessions) IN
         (IF session.isRead /\ ~session.isMissed
          THEN OrElse(session.actualPages, session.plannedPages, 0)
          ELSE 0) + totalPagesRead(Tail(sessions))

\* CalendarView: sum + (session.actualPages || (session.isRead ?
\* session.plannedPages : 0)) over all rows
RECURSIVE calendarTotalPagesRead(_)
calendarTotalPagesRead(sessions) ==
    IF sessions = <<>> THEN 0
    ELSE LET session == Head(sessions) IN
         (IF Truthy(session.actualPages) THEN session.actualPages
          ELSE IF session.isRead THEN session.plannedPages ELSE 0)
         + calendarTotalPagesRead(Tail(sessions))

ReadRows(sessions) == SelectSeq(sessions, LAMBDA session : session.isRead)

\* C21: the progress figure counts a Read day with its actualPages whenever
\* one is recorded, a recorded 0 included, and with its plannedPages only
\* when none is recorded.
ZeroCountsAsZero ==
    AtRest => totalPagesRead(cache) = ReadSum(cache)

\* C22: the pages-read total is made of Read days only: a day that is Unset
\* or Missed adds nothing to it, whatever actualPages its record still holds.
OnlyReadDaysCount ==
    AtRest =>
        /\ totalPagesRead(db) = totalPagesRead(ReadRows(db))
        /\ calendarTotalPagesRead(db) = calendarTotalPagesRead(ReadRows(db))

InputOps == {"editPages", "editIgnored", "editRejected"}

RedistributionCoversOpenDays ==
    (AtRest /\ Redistributes(LastOp)) =>
        \A d \in DaysWith(db, "Unset") : HasSession(db, d)

----------------------------------------------------------------------------
(* The catch-up report on the sessions DaysView leaves behind *)

Todays == 0 .. NumDays + 1

\* C26: the pages expected by today are the sum of the plannedPages the days
\* up to and including today hold now, after the redistributions, and not
\* the sum of the allocator's original targets.
ExpectedFollowsSchedule ==
    (AtRest /\ \A d \in Days : HasSession(db, d)) =>
        \A today \in Days :
            expectedPageByToday(totalPages, NumDays, today) =
                PlannedSum(db, {d \in Days : d <= today})

\* C27: in every report remainingPages is max(0, totalPages - pages read),
\* and remainingPages and suggestedPages are not negative, whatever the
\* statuses and the actualPages of the days.
ReportNeverNegative ==
    AtRest =>
        \A today \in Todays :
            LET r == CatchUpSuggestion(totalPages, NumDays, db, today) IN
            /\ r.type = "catchup" =>
                  /\ r.remainingPages = Max(0, totalPages - ReadSum(db))
                  /\ r.remainingPages >= 0
                  /\ r.suggestedPages >= 0
            /\ r.type = "overdue" => r.suggestedPages >= 0

----------------------------------------------------------------------------
(* Marking a day Read without a page count *)

\* what the row of day d adds to DaysView's progress figure
CountedPages(sessions, d) ==
    IF HasSession(sessions, d) THEN totalPagesRead(<<SessionFor(sessions, d)>>)
    ELSE 0

\* C28: a day marked Read with no page count given counts with the
\* plannedPages it held when it was marked, in the progress figure and in the
\* redistribution that follows, whatever happened to the day before.
DefaultIsPlannedPages ==
    (AtRest /\ LastOp.op = "markRead") =>
        LET d == LastOp.date
            held == PlannedOf(LastOp.before, d)
        IN  /\ CountedPages(db, d) = held
            /\ RedistributionOf(LastOp).pages = held

----------------------------------------------------------------------------
(* CalendarView: the other view of the same sessions. The book page shows  *)
(* it when book.readingMode is "calendar", and the edit form switches the  *)
(* mode of a stored book.                                                  *)

\* CalendarView's handleDayToggle: isRead is flipped, nothing is redistributed
calendarDayToggle(sessions, d, txn) ==
    IF HasSession(sessions, d)
    THEN LET existingSession == SessionFor(sessions, d) IN
         [op |-> IF existingSession.isRead THEN "calendarUnmark" ELSE "calendarMark",
          calls |-> <<UpdateCall([sessionId |-> existingSession.id,
                                  userId |-> Owner,
                                  isRead |-> ~existingSession.isRead]
                                 @@ OptNum("actualPages",
                                           existingSession.actualPages))>>,
          timers |-> <<>>]
    ELSE [op |-> "calendarMark",
          calls |-> <<CreateCall([userId |-> Owner, date |-> d,
                                  plannedPages |->
                                      distributePagesAcrossDays(totalPages, 1,
                                                                NumDays)[d],
                                  isRead |-> TRUE])>>,
          timers |-> <<>>]

\* CalendarView's handlePagesUpdate, called by the input's onChange
calendarPagesUpdate(sessions, d, pages, txn) ==
    IF HasSession(sessions, d)
    THEN LET existingSession == SessionFor(sessions, d) IN
         [op |-> "calendarEdit",
          calls |-> <<UpdateCall([sessionId |-> existingSession.id,
                                  userId |-> Owner,
                                  isRead |-> existingSession.isRead,
                                  actualPages |-> pages])>>,
          timers |-> <<>>]
    ELSE [op |-> "editIgnored", calls |-> <<>>, timers |-> <<>>]

\* a handler of CalendarView runs: its mutations have no onMutate, so the
\* call is sent and the cache waits for the refetch that onSuccess starts
CalendarOp(h, d, pages) ==
    /\ inflight' = inflight \o
          [i \in DOMAIN h.calls |->
              [call |-> h.calls[i], previousSessions |-> cache,
               txn |-> Len(trail) + 1]]
    /\ trail' = Append(trail, [op |-> h.op, date |-> d, pages |-> pages,
                               before |-> cache])
    /\ UNCHANGED <<books, alloc, catchUp, totalPages, db, cache, tasks, stale,
                   last, applied, rejected>>

\* the checkbox of a day of the calendar
CalendarToggle(d) ==
    CalendarOp(calendarDayToggle(cache, d, Len(trail) + 1), d, NoPages)

\* the pages input of the calendar is rendered for a day shown as read
CalendarPages(d, pages) ==
    /\ HasSession(cache, d) /\ SessionFor(cache, d).isRead
    /\ CalendarOp(calendarPagesUpdate(cache, d, pages, Len(trail) + 1), d, pages)

\* the user acts in either view, one operation at a time
NextViews ==
    \/ Quiescent /\ Len(trail) < ViewOps /\ \E d \in Days : DayToggle(d)
    \/ Quiescent /\ Len(trail) < ViewOps /\ \E d \in Days : MissedToggle(d)
    \/ Quiescent /\ Len(trail) < ViewOps
          /\ \E d \in Days, pages \in PageInputs : InputBlur(d, pages)
    \/ Quiescent /\ Len(trail) < ViewOps /\ \E d \in Days : CalendarToggle(d)
    \/ Quiescent /\ Len(trail) < ViewOps
          /\ \E d \in Days, pages \in PageInputs : CalendarPages(d, pages)
    \/ System

SpecViews == InitUi /\ [][NextViews]_vars

\* a Missed day brought to Unset and then to Read by the handlers of DaysView,
\* each with its redistribution
TwoStep(table, d) ==
    LET unset == Settle(table, handleMissedToggle(table, d, 0))
    IN  Settle(unset, handleDayToggle(unset, d, 0))

\* C29: a day changed straight from Missed to Read leaves every day with the
\* status and the plannedPages, and the changed day with the effective pages,
\* that the two steps Missed -> Unset and Unset -> Read, each with its
\* redistribution, would have left.
DirectEqualsTwoStep ==
    (AtRest /\ LastOp.op = "calendarMark"
            /\ StatusOf(LastOp.before, LastOp.date) = "Missed") =>
        LET two == TwoStep(LastOp.before, LastOp.date) IN
        /\ \A d \in Days : /\ StatusOf(db, d) = StatusOf(two, d)
                           /\ PlannedOf(db, d) = PlannedOf(two, d)
        /\ EffectivePages(db, LastOp.date) = EffectivePages(two, LastOp.date)

----------------------------------------------------------------------------
(* A plan that is already read *)

\* the operations of DaysView that start a redistribution
RedistributingOps == {"markRead", "unmarkRead", "unmarkMissed", "editPages"}

\* C31: when the pages of the Read days have reached totalPages and Unset
\* days remain, the redistribution leaves every Unset day with plannedPages 0.
PlanAlreadySatisfied ==
    (AtRest /\ LastOp.op \in RedistributingOps /\ ReadSum(db) >= totalPages) =>
        \A d \in DaysWith(db, "Unset") : PlannedOf(db, d) = 0

----------------------------------------------------------------------------
(* Requests that carry both flags *)

DualStatus == [isRead |-> TRUE, isMissed |-> TRUE]

StoredStatus(session) ==
    IF session.isRead THEN "Read" ELSE IF session.isMissed THEN "Missed" ELSE "Unset"

\* the status createSession stores for a request with these flags
CreatedStatus(flags) ==
    StoredStatus(createSession(<<>>, [userId |-> Owner, date |-> 1,
                                      plannedPages |-> 2] @@ flags).db[1])

\* C32: a request with isRead = true and isMissed = true ends in the same
\* stored status through updateSession as through createSession.
DualStatusConsistent ==
    (last.op = "updateSession" /\ last.ok /\ last.flags = DualStatus) =>
        StoredStatus(db[last.id]) = CreatedStatus(DualStatus)

----------------------------------------------------------------------------
(* Two writes in flight, one of them fails *)

\* the cached sessions show the optimistic change of this write
EffectPresent(sessions, call) ==
    /\ IF call.fn = "updateSession"
       THEN HasRow(sessions, call.args.sessionId)
       ELSE \E i \in DOMAIN sessions : sessions[i].date = call.args.date
    /\ onMutate(sessions, call) = sessions

----------------------------------------------------------------------------
(* Editing the pages of a day *)

\* what handlePagesUpdate sends for a day of these sessions
EditSends(sessions, d, pages) ==
    LET h == handlePagesUpdate(sessions, d, pages, Len(trail) + 1)
    IN  h.calls \o h.timers

----------------------------------------------------------------------------
(* The store: the books and readingSessions tables behind the mutations and *)
(* queries of convex/books.ts and convex/readingSessions.ts. A deleted      *)
(* document keeps its _id, which is never given to another document.        *)

StoreRows == 3      \* reading sessions inserted per behaviour
StoreOps == 3       \* mutations and queries executed per behaviour

SignedIn == UserIds \ {""}

\* ctx.db.get(id) finds a document
Found(table, id) == id \in DOMAIN table /\ table[id].live

Store(bookTable, sessionTable) == [books |-> bookTable, sessions |-> sessionTable]
Thrown(store) == [ok |-> FALSE, books |-> store.books, sessions |-> store.sessions]
Done(bookTable, sessionTable) ==
    [ok |-> TRUE, books |-> bookTable, sessions |-> sessionTable]

\* "Not authenticated", "Book not found", "Unauthorized"
BookGuard(store, args) ==
    /\ args.userId # ""
    /\ Found(store.books, args.bookId)
    /\ store.books[args.bookId].userId = args.userId

\* createBook with the visibility flag
createBookIn(store, args) ==
    IF args.userId = "" THEN Thrown(store)
    ELSE Done(Append(store.books, [userId |-> args.userId,
                                   isPublic |-> args.isPublic,
                                   isArchived |-> FALSE,
                                   live |-> TRUE]),
              store.sessions)

\* updateBook with the visibility flag
updateBookIn(store, args) ==
    IF ~BookGuard(store, args) THEN Thrown(store)
    ELSE Done([store.books EXCEPT ![args.bookId].isPublic =
                   IF Has(args, "isPublic") THEN args.isPublic ELSE @],
              store.sessions)

\* Mutant: archiveBook without the ownership check.
archiveBookAnyUser(store, args) ==
    IF args.userId = "" \/ ~Found(store.books, args.bookId) THEN Thrown(store)
    ELSE Done([store.books EXCEPT ![args.bookId].isArchived = TRUE],
              store.sessions)

archiveBook(store, args) ==
    IF ~BookGuard(store, args) THEN Thrown(store)
    ELSE Done([store.books EXCEPT ![args.bookId].isArchived = TRUE],
              store.sessions)

unarchiveBook(store, args) ==
    IF ~BookGuard(store, args) THEN Thrown(store)
    ELSE Done([store.books EXCEPT ![args.bookId].isArchived = FALSE],
              store.sessions)

\* Mutant: deleteBook deletes the book and leaves its sessions.
deleteBookOnly(store, args) ==
    IF ~BookGuard(store, args) THEN Thrown(store)
    ELSE Done([store.books EXCEPT ![args.bookId].live = FALSE], store.sessions)

\* deleteBook: the sessions of the by_book index, then the book
deleteBook(store, args) ==
    IF ~BookGuard(store, args) THEN Thrown(store)
    ELSE Done([store.books EXCEPT ![args.bookId].live = FALSE],
              [i \in DOMAIN store.sessions |->
                  IF store.sessions[i].bookId = args.bookId
                  THEN [store.sessions[i] EXCEPT !.live = FALSE]
                  ELSE store.sessions[i]])

\* the document createSession and initializeSessionsForBook insert
SessionDoc(args, date, plannedPages, isRead, isMissed) ==
    [bookId |-> args.bookId, userId |-> args.userId, date |-> date,
     plannedPages |-> plannedPages, isRead |-> isRead, isMissed |-> isMissed,
     live |-> TRUE]

\* createSession with the book it belongs to
createSessionIn(store, args) ==
    IF ~BookGuard(store, args) THEN Thrown(store)
    ELSE LET argMissed == Has(args, "isMissed") /\ args.isMissed
             isRead == IF argMissed THEN FALSE ELSE args.isRead
             isMissed == IF args.isRead THEN FALSE ELSE argMissed
         IN  Done(store.books,
                  Append(store.sessions,
                         SessionDoc(args, args.date, args.plannedPages,
                                    isRead, isMissed)))

\* initializeSessionsForBook: one session per day of the distribution
initializeSessionsForBook(store, args) ==
    IF ~BookGuard(store, args) THEN Thrown(store)
    ELSE LET distribution ==
                 distributePagesAcrossDays(args.totalPages, args.startDate,
                                           args.endDate)
             days == getAllDaysInRange(args.startDate, args.endDate)
         IN  Done(store.books,
                  store.sessions \o
                  [i \in DOMAIN days |->
                      SessionDoc(args, days[i], distribution[days[i]],
                                 FALSE, FALSE)])

\* updateSession on a table whose documents can be deleted
updateSessionIn(store, args) ==
    IF args.userId = "" \/ ~Found(store.sessions, args.sessionId)
    THEN Thrown(store)
    ELSE IF store.sessions[args.sessionId].userId # args.userId
    THEN Thrown(store)
    ELSE LET u == updateData(args)
         IN  Done(store.books,
                  [store.sessions EXCEPT ![args.sessionId] =
                      [@ EXCEPT !.isRead = IF u.setRead THEN u.isRead ELSE @,
                                !.isMissed = IF u.setMissed THEN u.isMissed
                                             ELSE @]])

Mutate(store, call) ==
    CASE call.fn = "createBook" -> createBookIn(store, call.args)
      [] call.fn = "updateBook" -> updateBookIn(store, call.args)
      [] call.fn = "archiveBook" -> archiveBook(store, call.args)
      [] call.fn = "unarchiveBook" -> unarchiveBook(store, call.args)
      [] call.fn = "deleteBook" -> deleteBook(store, call.args)
      [] call.fn = "createSession" -> createSessionIn(store, call.args)
      [] call.fn = "updateSession" -> updateSessionIn(store, call.args)
      [] call.fn = "initializeSessionsForBook" ->
             initializeSessionsForBook(store, call.args)

\* the sessions of the by_book index
SessionsOf(store, bookId) ==
    {i \in DOMAIN store.sessions :
        store.sessions[i].live /\ store.sessions[i].bookId = bookId}

\* what a query hands back: the books and the sessions whose fields are in
\* the result
Nothing == [ok |-> TRUE, books |-> {}, sessions |-> {}]
Refused == [ok |-> FALSE, books |-> {}, sessions |-> {}]

\* getBook: null, the book, or a throw
getBook(store, args) ==
    IF ~Found(store.books, args.bookId) THEN Nothing
    ELSE LET book == store.books[args.bookId] IN
         IF args.userId # "" /\ book.userId = args.userId
         THEN [ok |-> TRUE, books |-> {args.bookId}, sessions |-> {}]
         ELSE IF book.isPublic
         THEN [ok |-> TRUE, books |-> {args.bookId}, sessions |-> {}]
         ELSE Refused

\* getSessionsForBook: the sessions of the book, or a throw
getSessionsForBook(store, args) ==
    IF ~Found(store.books, args.bookId) THEN Refused
    ELSE LET book == store.books[args.bookId] IN
         IF args.userId # "" /\ book.userId = args.userId
         THEN [ok |-> TRUE, books |-> {},
               sessions |-> SessionsOf(store, args.bookId)]
         ELSE IF book.isPublic
         THEN [ok |-> TRUE, books |-> {},
               sessions |-> SessionsOf(store, args.bookId)]
         ELSE Refused

\* getPublicBook: null unless the book is public; progress is computed from
\* the sessions of the book
getPublicBook(store, args) ==
    IF ~Found(store.books, args.bookId) THEN Nothing
    ELSE IF ~store.books[args.bookId].isPublic THEN Nothing
    ELSE [ok |-> TRUE, books |-> {args.bookId},
          sessions |-> SessionsOf(store, args.bookId)]

\* getPublicBooks: the books of the by_public index that are not archived
getPublicBooks(store) ==
    LET shown == {b \in DOMAIN store.books :
                     /\ store.books[b].live
                     /\ store.books[b].isPublic
                     /\ ~store.books[b].isArchived}
    IN  [ok |-> TRUE, books |-> shown,
         sessions |-> UNION {SessionsOf(store, b) : b \in shown}]

Ask(store, call) ==
    CASE call.fn = "getBook" -> getBook(store, call.args)
      [] call.fn = "getSessionsForBook" -> getSessionsForBook(store, call.args)
      [] call.fn = "getPublicBook" -> getPublicBook(store, call.args)
      [] call.fn = "getPublicBooks" -> getPublicBooks(store)

BookIds == 1 .. MaxBooks
SessionIds == 1 .. StoreRows

\* the mutations a client sends for a book
BookCalls ==
    {[fn |-> "updateBook", args |-> [userId |-> u, bookId |-> b] @@ OptBool("isPublic", p)] :
        u \in UserIds, b \in BookIds, p \in OptBools}
    \cup {[fn |-> f, args |-> [userId |-> u, bookId |-> b]] :
             f \in {"archiveBook", "unarchiveBook", "deleteBook"},
             u \in UserIds, b \in BookIds}

\* the mutations a client sends for the days of a book
SessionCalls ==
    {[fn |-> "createSession",
      args |-> [userId |-> u, bookId |-> b, date |-> 1, plannedPages |-> 2,
                isRead |-> r]] : u \in UserIds, b \in BookIds, r \in BOOLEAN}
    \cup {[fn |-> "updateSession",
           args |-> [userId |-> u, sessionId |-> id, isRead |-> r]] :
             u \in UserIds, id \in SessionIds, r \in BOOLEAN}
    \cup {[fn |-> "initializeSessionsForBook",
           args |-> [userId |-> u, bookId |-> b, startDate |-> 1,
                     endDate |-> 2, totalPages |-> 5]] :
             u \in UserIds, b \in BookIds}

\* the documents a call would insert at most
Inserts(call) ==
    IF call.fn = "createSession" THEN 1
    ELSE IF call.fn = "initializeSessionsForBook"
    THEN call.args.endDate - call.args.startDate + 1
    ELSE 0

Queries ==
    {[fn |-> f, args |-> [bookId |-> b, userId |-> u]] :
        f \in {"getBook", "getSessionsForBook"}, b \in BookIds, u \in UserIds}
    \cup {[fn |-> "getPublicBook", args |-> [bookId |-> b]] : b \in BookIds}
    \cup {[fn |-> "getPublicBooks", args |-> NoArgs]}

InitStore ==
    /\ alloc = NoAlloc
    /\ totalPages = 0
    /\ db = <<>> /\ cache = <<>>
    /\ inflight = <<>> /\ tasks = <<>>
    /\ stale = FALSE
    /\ catchUp = NoCatchUp
    /\ last = [op |-> "none", n |-> 0]
    /\ trail = <<>>
    /\ applied = {} /\ rejected = {}
    /\ books = <<>>

storeVars == <<alloc, totalPages, cache, tasks, stale, catchUp, trail, applied,
               rejected>>

\* the server runs a mutation as one transaction
Run(call, queued) ==
    LET res == Mutate(Store(books, db), call)
    IN  /\ books' = res.books
        /\ db' = res.sessions
        /\ last' = [op |-> "mutation", call |-> call, ok |-> res.ok,
                    queued |-> queued, n |-> last.n + 1]

StoreCreateBook ==
    /\ last.n < StoreOps /\ Len(books) < MaxBooks
    /\ \E u \in UserIds, p \in BOOLEAN :
          Run([fn |-> "createBook", args |-> [userId |-> u, isPublic |-> p]],
              FALSE)
    /\ UNCHANGED <<inflight, storeVars>>

\* a mutation that is executed as soon as it is sent
StoreCall ==
    /\ last.n < StoreOps
    /\ \E call \in BookCalls \cup SessionCalls :
          /\ Len(db) + Inserts(call) <= StoreRows
          /\ Run(call, FALSE)
    /\ UNCHANGED <<inflight, storeVars>>

\* a day without a session is toggled or redistributed: the mutation that
\* inserts its session is on its way
StoreSend ==
    /\ last.n < StoreOps /\ inflight = <<>>
    /\ \E call \in SessionCalls :
          /\ call.args.userId # "" /\ Inserts(call) > 0
          /\ inflight' = <<call>>
    /\ UNCHANGED <<books, db, last, storeVars>>

\* the mutation that was on its way is executed
StoreReceive ==
    /\ inflight # <<>>
    /\ Len(db) + Inserts(Head(inflight)) <= StoreRows
    /\ Run(Head(inflight), TRUE)
    /\ inflight' = Tail(inflight)
    /\ UNCHANGED storeVars

\* somebody runs a query, signed in as caller or not signed in ("")
StoreQuery ==
    /\ last.n < StoreOps
    /\ \E caller \in UserIds, call \in Queries :
          last' = [op |-> "query", caller |-> caller, call |-> call,
                   result |-> Ask(Store(books, db), call), n |-> last.n + 1]
    /\ UNCHANGED <<books, db, inflight, storeVars>>

NextStore == StoreCreateBook \/ StoreCall \/ StoreSend \/ StoreReceive

SpecStore == InitStore /\ [][NextStore]_vars

\* the queries between mutations that are executed as soon as they are sent
NextShared == StoreCreateBook \/ StoreCall \/ StoreQuery

SpecShared == InitStore /\ [][NextShared]_vars

----------------------------------------------------------------------------
(* Who may change and see what *)

\* the document a mutation is aimed at belongs to somebody else than the
\* userId of the call
NotOwner(store, call) ==
    IF call.fn = "createBook" THEN FALSE
    ELSE IF call.fn = "updateSession"
    THEN /\ Found(store.sessions, call.args.sessionId)
         /\ store.sessions[call.args.sessionId].userId # call.args.userId
    ELSE /\ Found(store.books, call.args.bookId)
         /\ store.books[call.args.bookId].userId # call.args.userId

\* C35: createSession, updateSession, initializeSessionsForBook, updateBook,
\* archiveBook, unarchiveBook and deleteBook called with a userId that is not
\* the owner of the book or session fail, and every book and every session
\* stays as it was.
OwnerOnlyMutation ==
    [][(/\ last'.n = last.n + 1
        /\ last'.op = "mutation"
        /\ NotOwner(Store(books, db), last'.call)) =>
           (~last'.ok /\ books' = books /\ db' = db)]_vars

\* C35 witness: somebody else than the owner has called deleteBook for a
\* book that has a session; the call failed and the session is still there.
OwnerOnlyMutationWitness ==
    /\ last.op = "mutation" /\ last.call.fn = "deleteBook" /\ ~last.ok
    /\ last.call.args.userId # ""
    /\ NotOwner(Store(books, db), last.call)
    /\ SessionsOf(Store(books, db), last.call.args.bookId) # {}

\* the signed-in user the documents of a book belong to
OwnerOfBook(b) == books[b].userId
Visible(b, caller) == books[b].isPublic \/ OwnerOfBook(b) = caller

\* C36: getBook, getSessionsForBook, getPublicBook and getPublicBooks return
\* a book that is not public, or a session of such a book, to nobody but the
\* owner of the book.
PrivateStaysPrivate ==
    last.op = "query" =>
        /\ \A b \in last.result.books : Visible(b, last.caller)
        /\ \A i \in last.result.sessions : Visible(db[i].bookId, last.caller)

\* C37: a reading session that is in the store belongs to a book that is in
\* the store, and a book whose deleteBook succeeded is not: a createSession
\* sent before the delete and executed after it inserts nothing.
DeleteCascades ==
    /\ \A i \in DOMAIN db : db[i].live => Found(books, db[i].bookId)
    /\ (last.op = "mutation" /\ last.call.fn = "deleteBook" /\ last.ok) =>
          ~Found(books, last.call.args.bookId)

\* C37 witness: a book with a session was deleted while a createSession of
\* its owner was on its way; the createSession was then executed and failed.
DeleteCascadesWitness ==
    /\ last.op = "mutation" /\ last.queued /\ ~last.ok
    /\ last.call.fn = "createSession"
    /\ LET b == last.call.args.bookId
       IN  /\ b \in DOMAIN books /\ ~books[b].live
           /\ books[b].userId = last.call.args.userId
           /\ \E i \in DOMAIN db : db[i].bookId = b /\ ~db[i].live

----------------------------------------------------------------------------
(* Several books one after the other *)

MaxShelf == 3       \* books passed to distributePagesSequentially
ShelfDays == 4      \* availableDays is drawn from 0 .. ShelfDays
ShelfBooks == [totalPages : BookTotals, days : 0 .. 2]

Min(a, b) == IF a <= b THEN a ELSE b

\* the loop of distributePagesSequentially from book i (counted from 0) on;
\* clamp says whether the days of a book are cut to the days that are left
RECURSIVE scheduleFrom(_, _, _, _, _)
scheduleFrom(shelf, availableDays, i, currentDay, clamp) ==
    IF i >= Len(shelf) THEN <<>>
    ELSE LET book == shelf[i + 1]
             daysForBook == IF clamp
                            THEN Min(book.days, availableDays - currentDay)
                            ELSE book.days
         IN  IF daysForBook <= 0 THEN <<>>
             ELSE LET perDay == calculateDailyPages(book.totalPages, daysForBook)
                      endDay == currentDay + daysForBook - 1
                  IN  <<[bookIndex |-> i, startDay |-> currentDay,
                         endDay |-> endDay, pagesPerDay |-> perDay]>>
                      \o scheduleFrom(shelf, availableDays, i + 1, endDay + 1,
                                      clamp)

\* Mutant: every book gets the days it asks for.
distributeUnclamped(shelf, availableDays) ==
    scheduleFrom(shelf, availableDays, 0, 0, FALSE)

distributePagesSequentially(shelf, availableDays) ==
    scheduleFrom(shelf, availableDays, 0, 0, TRUE)

NoSchedule == [shelf |-> <<>>, availableDays |-> 0, done |-> FALSE,
               schedule |-> <<>>]

InitShelf ==
    /\ \E n \in 0 .. MaxShelf, a \in 0 .. ShelfDays :
         \E shelf \in [1 .. n -> ShelfBooks] :
            alloc = [NoSchedule EXCEPT !.shelf = shelf, !.availableDays = a]
    /\ totalPages = 0
    /\ db = <<>> /\ cache = <<>>
    /\ inflight = <<>> /\ tasks = <<>>
    /\ stale = FALSE
    /\ catchUp = NoCatchUp
    /\ last = [op |-> "none"]
    /\ trail = <<>>
    /\ applied = {} /\ rejected = {}
    /\ books = <<>>

ScheduleShelf ==
    /\ ~alloc.done
    /\ alloc' = [alloc EXCEPT
                    !.done = TRUE,
                    !.schedule = distributePagesSequentially(alloc.shelf,
                                                             alloc.availableDays)]
    /\ UNCHANGED uiVars

NextShelf == ScheduleShelf

SpecShelf == InitShelf /\ [][NextShelf]_vars

BlockDays(block) == block.endDay - block.startDay + 1

\* C38: the blocks of the schedule follow the books in their order, the
\* first starts at day 0 and each next one the day after the one before it
\* ends; every block has at least one day and lies within the days
\* 0 .. availableDays - 1; pagesPerDay times the days of a block is at least
\* the totalPages of its book; and a book at whose turn no day is left is not
\* in the schedule, nor is any book after it.
SequentialSchedule ==
    alloc.done =>
        LET schedule == alloc.schedule
            shelf == alloc.shelf
            used == IF schedule = <<>> THEN 0
                    ELSE schedule[Len(schedule)].endDay + 1
        IN  /\ Len(schedule) <= Len(shelf)
            /\ \A k \in DOMAIN schedule :
                  /\ schedule[k].bookIndex = k - 1
                  /\ schedule[k].startDay =
                         (IF k = 1 THEN 0 ELSE schedule[k - 1].endDay + 1)
                  /\ BlockDays(schedule[k]) >= 1
                  /\ schedule[k].startDay >= 0
                  /\ schedule[k].endDay <= alloc.availableDays - 1
                  /\ schedule[k].pagesPerDay * BlockDays(schedule[k])
                         >= shelf[k].totalPages
            /\ Len(schedule) < Len(shelf) =>
                  Min(shelf[Len(schedule) + 1].days,
                      alloc.availableDays - used) <= 0

\* C38 witness: three books, the second is cut to the days that are left and
\* the third is left out.
SequentialScheduleWitness ==
    /\ alloc.done /\ Len(alloc.shelf) = 3 /\ Len(alloc.schedule) = 2
    /\ BlockDays(alloc.schedule[2]) < alloc.shelf[2].days
    /\ alloc.shelf[3].days > 0
    /\ alloc.schedule[2].endDay = alloc.availableDays - 1

====
